---- MODULE Spec2Model ----
(***************************************************************************)
(* Model of crda.c: the Central Regulatory Domain Agent.  main() maps the  *)
(* signed regulatory database, checks its header and signature, looks up   *)
(* the country named by $COUNTRY, and sends that country's rules to the    *)
(* kernel as one nl80211 message.                                          *)
(*                                                                         *)
(* 32-bit quantities (__u32, __be32 after ntohl, int) are all represented  *)
(* by their two's-complement value in INT_MIN..INT_MAX: a __u32 u >= 2^31  *)
(* is the integer u - 2^32.  The conversion between __u32 and int is then  *)
(* the identity on the representation, and only the comparisons differ.    *)
(***************************************************************************)
EXTENDS Integers, Sequences, FiniteSets

(* ----------------------------------------------------------------------- *)
(* 32-bit arithmetic                                                       *)
(* ----------------------------------------------------------------------- *)

INT_MAX == 2147483647
INT_MIN == (-INT_MAX) - 1

\* a + b modulo 2^32
WrapAdd(a, b) ==
    IF a >= 0 /\ b >= 0 /\ a > INT_MAX - b THEN (a + INT_MIN) + (b + INT_MIN)
    ELSE IF a < 0 /\ b < 0 /\ a < INT_MIN - b THEN (a - INT_MIN) + (b - INT_MIN)
    ELSE a + b

\* a - b overflows the int range
SubOverflows(a, b) ==
    \/ a >= 0 /\ b < 0 /\ a > INT_MAX + b
    \/ a < 0 /\ b >= 0 /\ a < INT_MIN + b

\* a - b modulo 2^32
WrapSub(a, b) ==
    IF a >= 0 /\ b < 0 /\ a > INT_MAX + b THEN (a + INT_MIN) - (b - INT_MIN)
    ELSE IF a < 0 /\ b >= 0 /\ a < INT_MIN + b THEN (a - INT_MIN) - (b + INT_MIN)
    ELSE a - b

\* unsigned comparisons of two 32-bit patterns
ULess(a, b) == IF (a < 0) = (b < 0) THEN a < b ELSE b < 0
UGreater(a, b) == ULess(b, a)

(* ----------------------------------------------------------------------- *)
(* Byte order                                                              *)
(* ----------------------------------------------------------------------- *)

\* ntohl of the four bytes w, in the order they lie in the file
ntohl(w) ==
    (IF w[1] >= 128 THEN w[1] - 256 ELSE w[1]) * 16777216
        + w[2] * 65536 + w[3] * 256 + w[4]

\* the four bytes, in file order, that ntohl decodes to v
htonl(v) ==
    << (IF v < 0 THEN 256 + (v \div 16777216) ELSE v \div 16777216),
       (v % 16777216) \div 65536,
       (v % 65536) \div 256,
       v % 256 >>

(* ----------------------------------------------------------------------- *)
(* regdb.h: the file format (network byte order throughout)                *)
(*   header     {magic, version, signature_length, reg_country_ptr,        *)
(*               reg_country_num}                                          *)
(*   country    {alpha2[2], pad[2], reg_collection_ptr}                    *)
(*   collection {reg_rule_num, reg_rule_ptrs[]}                            *)
(*   rule       {flags, freq_range_ptr, power_rule_ptr}                    *)
(*   freq_range {start_freq, end_freq, max_bandwidth}                      *)
(*   power_rule {max_antenna_gain, max_eirp}                               *)
(* ----------------------------------------------------------------------- *)

REGDB_MAGIC == 1380402242      \* 0x52474442
REGDB_VERSION == 19

SizeofHeader == 20
SizeofCountry == 8
SizeofCollection == 4
SizeofRule == 12
SizeofFreqRange == 12
SizeofPowerRule == 8
SizeofBe32 == 4

\* byte offsets of the fields inside their records
OffMagic == 0
OffVersion == 4
OffSignatureLength == 8
OffCountryPtr == 12
OffCountryNum == 16
OffCollectionPtr == 4
OffRulePtrs == 4
OffFlags == 0
OffFreqRangePtr == 4
OffPowerRulePtr == 8
OffStartFreq == 0
OffEndFreq == 4
OffMaxBandwidth == 8
OffMaxAntennaGain == 0
OffMaxEirp == 4

(* ----------------------------------------------------------------------- *)
(* The database files and environments the program is run on               *)
(* ----------------------------------------------------------------------- *)

MaxCountries == 2      \* country records a generated file holds
MaxRules == 2          \* rules a generated file holds
NumKeys == 2           \* sizeof(keys)/sizeof(keys[0])
KeyBytes == 4          \* RSA_size() of every trusted key
MaxMsgRules == 3       \* rule containers the netlink message has room for

US == <<85, 83>>
World == <<48, 48>>

\* where the generator lays the records out
TabAt == SizeofHeader
CollAt == TabAt + SizeofCountry * MaxCountries
RulesAt == CollAt + SizeofCollection + SizeofBe32 * MaxRules
FreqAt == RulesAt + SizeofRule * MaxRules
PowerAt == FreqAt + SizeofFreqRange
EmptyCollAt == PowerAt + SizeofPowerRule
SignedLen == EmptyCollAt + SizeofCollection
FullLen == SignedLen + KeyBytes

RECURSIVE Flatten(_)
Flatten(ss) == IF ss = << >> THEN << >> ELSE Head(ss) \o Flatten(Tail(ss))

RuleFlagsOf(k) == 265 * k

\* the bytes of the file described by f, cut to f.len bytes
MkDb(f) ==
    LET header == htonl(f.magic) \o htonl(f.version) \o htonl(f.siglen)
                    \o htonl(f.cptr) \o htonl(f.ccount)
        \* record 0 owns the collection with rules, the others the empty one
        table == Flatten([c \in 1..MaxCountries |->
                    f.codes[c] \o <<0, 0>>
                        \o htonl(IF c = 1 THEN CollAt ELSE EmptyCollAt)])
        coll == htonl(f.nrules) \o Flatten([k \in 1..MaxRules |-> htonl(f.rptr[k])])
        rules == Flatten([k \in 1..MaxRules |->
                    htonl(RuleFlagsOf(k - 1)) \o htonl(FreqAt) \o htonl(PowerAt)])
        freq == htonl(2400000) \o htonl(2483500) \o htonl(40000)
        power == htonl(600) \o htonl(2000)
        empty == htonl(0)
        sig == [k \in 1..KeyBytes |-> 83]
        full == header \o table \o coll \o rules \o freq \o power \o empty \o sig
    IN  SubSeq(full, 1, f.len)

GoodRulePtrs == [k \in 1..MaxRules |-> RulesAt + SizeofRule * (k - 1)]

Good ==
    [magic |-> REGDB_MAGIC, version |-> REGDB_VERSION, siglen |-> KeyBytes,
     cptr |-> TabAt, ccount |-> MaxCountries,
     codes |-> [c \in 1..MaxCountries |-> IF c = 1 THEN US ELSE World],
     nrules |-> MaxRules, rptr |-> GoodRulePtrs, len |-> FullLen, signer |-> 1]

\* country counts: honest ones, an inflated one the table check can reject, one
\* larger than the file, and two whose byte size does not fit 32 bits
CountVals ==
    {0, 1, MaxCountries, MaxCountries + 8, 50, 536870913, INT_MIN + 1}

\* rule counts, chosen likewise
RuleCountVals ==
    {0, 1, MaxRules, MaxRules + 20, 100, 1073741824, INT_MIN}

SigLenVals ==
    {0, 2, KeyBytes, FullLen - SizeofHeader, FullLen, 200, -1, INT_MAX}

CountryPtrVals == {TabAt, TabAt + SizeofCountry, SignedLen - 4, FullLen, 1000, -4}

RulePtrVals == {RulesAt, RulesAt + SizeofRule, SignedLen - 4, 1000, -12}

FileLenVals == {0, 10, SizeofHeader, FullLen}

Files ==
    { [Good EXCEPT !.codes = cs, !.ccount = n, !.nrules = m] :
        cs \in [1..MaxCountries -> {US, World}],
        n \in CountVals, m \in RuleCountVals }
    \cup { [Good EXCEPT !.magic = v] : v \in {REGDB_MAGIC, 0} }
    \cup { [Good EXCEPT !.version = v] : v \in {REGDB_VERSION, REGDB_VERSION + 1} }
    \cup { [Good EXCEPT !.siglen = v] : v \in SigLenVals }
    \cup { [Good EXCEPT !.cptr = v] : v \in CountryPtrVals }
    \cup { [Good EXCEPT !.rptr[1] = v] : v \in RulePtrVals }
    \cup { [Good EXCEPT !.len = v, !.siglen = s] :
            v \in FileLenVals, s \in {KeyBytes, 200} }
    \cup { [Good EXCEPT !.signer = k] : k \in 0..NumKeys }

\* what getenv("COUNTRY") can return: unset, or a NUL-terminated string
Unset == <<-1>>
EnvVals == {Unset, US, World, <<117, 115>>, <<85>>, << >>}

\* what the bytes after the end of the file read as
FillVals == {0, 48}

(* ----------------------------------------------------------------------- *)
(* State                                                                   *)
(* ----------------------------------------------------------------------- *)

VARIABLES
    build,          \* "openssl", "gcrypt" or "none": which of USE_OPENSSL / USE_GCRYPT
    fill,           \* what memory past the end of the mapping reads as
    pc,             \* where main() is; "done": returned, "exit": exit(), "crash": signal
    alpha2,         \* char alpha2[2]
    db,             \* the mapped file, a sequence of bytes
    signer,         \* the trusted key (1..NumKeys) that signed the file, 0 if none
    dblen, siglen,  \* int dblen, siglen
    hash,           \* the length of the region the digest was taken over
    i, ok,          \* int i, ok
    num_countries, countries, found_country, country,
    rcoll, num_rules, j,
    msg,            \* struct nl_msg *msg: the attribute stream built so far
    r,              \* int r
    ret,            \* main's return value, or the exit code
    sent,           \* the messages handed to nl_send_auto_complete
    acked,          \* nl_wait_for_ack returned success
    \* history variables
    failed,         \* some step of the run has failed
    verified,       \* the signature check has passed
    tried,          \* the index of the key each iteration of the key loop used
    decoded,        \* the kinds of record read after the header's first three fields
    calls,          \* the get_file_ptr calls of the last step
    oobFile,        \* some read fell outside the mapped file
    oobUsable       \* some read of a record fell outside the first dblen bytes

config == <<build, fill>>
locals == <<alpha2, db, signer, dblen, siglen, hash, i, ok, num_countries, countries,
            found_country, country, rcoll, num_rules, j, msg>>
outcome == <<r, ret, sent, acked>>
history == <<failed, verified, tried, decoded, calls, oobFile, oobUsable>>
vars == <<config, pc, locals, outcome, history>>

\* errno.h
ENOENT == 2
EIO == 5
ENOMEM == 12
EINVAL == 22
ENOLINK == 67

\* the builds that check the signature, and the build with neither macro
CryptoBuilds == {"openssl", "gcrypt"}
Builds == CryptoBuilds \cup {"none"}

InitBuild(builds) ==
    /\ build \in builds
    /\ fill \in FillVals
    /\ pc = "start"
    /\ alpha2 = <<0, 0>>
    /\ db = << >>
    /\ signer = 0
    /\ dblen = 0 /\ siglen = 0 /\ hash = 0
    /\ i = 0 /\ ok = 0
    /\ num_countries = 0 /\ countries = 0 /\ found_country = 0 /\ country = 0
    /\ rcoll = 0 /\ num_rules = 0 /\ j = 0
    /\ msg = << >>
    /\ r = 0 /\ ret = 0
    /\ sent = << >>
    /\ acked = FALSE
    /\ failed = FALSE /\ verified = FALSE
    /\ tried = << >>
    /\ decoded = {}
    /\ calls = << >>
    /\ oobFile = FALSE /\ oobUsable = FALSE

Init == InitBuild(CryptoBuilds)

InitAnyBuild == InitBuild(Builds)

(* ----------------------------------------------------------------------- *)
(* Memory                                                                  *)
(* ----------------------------------------------------------------------- *)

\* the n bytes at db + p + off lie inside the mapped file (a negative n is a
\* length of 2^31 bytes or more)
InFile(p, off, n) == p >= 0 /\ n >= 0 /\ n <= Len(db) /\ p <= Len(db) - off - n

\* the n bytes at db + p + off lie inside the first len bytes
InUsable(p, off, n, len) ==
    p >= 0 /\ n >= 0 /\ len >= 0 /\ n <= len /\ p <= len - off - n

\* the byte at db + p + off
Byte(p, off) == IF p >= 0 /\ p < Len(db) - off THEN db[p + off + 1] ELSE fill

\* the __be32 at db + p + off, as it lies in memory
Be32(p, off) == <<Byte(p, off), Byte(p, off + 1), Byte(p, off + 2), Byte(p, off + 3)>>

\* a set rd of reads <<p, off, n>> 
OutsideFile(rd) == \E x \in rd : ~InFile(x[1], x[2], x[3])
OutsideUsable(rd, len) == \E x \in rd : ~InUsable(x[1], x[2], x[3], len)

Touch(rd, len) ==
    /\ oobFile' = (oobFile \/ OutsideFile(rd))
    /\ oobUsable' = (oobUsable \/ OutsideUsable(rd, len))

(* ----------------------------------------------------------------------- *)
(* get_file_ptr                                                            *)
(* ----------------------------------------------------------------------- *)

\* line 137: p > dblen - structlen, the int difference converted to unsigned
bad_pointer(p, len, structlen) == UGreater(p, WrapSub(len, structlen))

\* The outcomes of get_file_ptr(db, len, structlen, ptr): ok = FALSE is exit(3).
\* dblen - structlen is an int subtraction; where it overflows the behaviour
\* is undefined and either outcome may be produced.
get_file_ptr(len, structlen, ptr) ==
    LET p == ntohl(ptr)
    IN  { [dblen |-> len, structlen |-> structlen, p |-> p, ok |-> b] :
            b \in IF SubOverflows(len, structlen)
                  THEN BOOLEAN
                  ELSE {~bad_pointer(p, len, structlen)} }

\* k * n modulo 2^32, for a small k: sizeof(...) * n passed as an int
RECURSIVE WrapMul(_, _)
WrapMul(k, n) == IF k = 0 THEN 0 ELSE WrapAdd(n, WrapMul(k - 1, n))

(* ----------------------------------------------------------------------- *)
(* Leaving main                                                            *)
(* ----------------------------------------------------------------------- *)

\* A failing exit: "done" is a return (directly or through the out labels),
\* "exit" is exit(); rv is what r holds then, cs the get_file_ptr calls made
\* and rd the reads made by the step.
FailWith(kind, code, rv, cs, rd) ==
    /\ pc' = kind
    /\ ret' = code
    /\ r' = rv
    /\ calls' = cs
    /\ failed' = TRUE
    /\ Touch(rd, dblen)
    /\ UNCHANGED <<config, sent, acked, verified, tried>>

Fail(kind, code, rv, cs, rd) ==
    FailWith(kind, code, rv, cs, rd) /\ UNCHANGED <<locals, decoded>>

\* a read outside the mapping may also end the process with a signal
CrashWith(cs, rd) ==
    /\ OutsideFile(rd)
    /\ pc' = "crash"
    /\ calls' = cs
    /\ failed' = TRUE
    /\ Touch(rd, dblen)
    /\ UNCHANGED <<config, locals, outcome, verified, tried>>

Crash(cs, rd) == CrashWith(cs, rd) /\ UNCHANGED decoded

(* ----------------------------------------------------------------------- *)
(* main: arguments, netlink, the file                                      *)
(* ----------------------------------------------------------------------- *)

\* the k-th char of the NUL-terminated string s, k from 0
CharAt(s, k) == IF k < Len(s) THEN s[k + 1] ELSE 0

isalpha_upper(letter) == letter >= 65 /\ letter <= 90

is_alpha2(s) == isalpha_upper(CharAt(s, 0)) /\ isalpha_upper(CharAt(s, 1))

is_world_regdom(s) == CharAt(s, 0) = 48 /\ CharAt(s, 1) = 48

\* lines 205-222
Start ==
    /\ pc = "start"
    /\ \E argc \in {1, 2}, env_country \in EnvVals :
        IF argc # 1 \/ env_country = Unset
            \/ (~is_alpha2(env_country) /\ ~is_world_regdom(env_country))
        THEN Fail("done", -EINVAL, r, << >>, {})
        ELSE /\ alpha2' = <<CharAt(env_country, 0), CharAt(env_country, 1)>>
             /\ pc' = "nl_init"
             /\ calls' = << >>
             /\ UNCHANGED <<config, db, signer, dblen, siglen, hash, i, ok,
                            num_countries, countries, found_country, country,
                            rcoll, num_rules, j, msg, outcome, failed, verified,
                            tried, decoded, oobFile, oobUsable>>

\* lines 224-226, with nl80211_init (lines 45-82)
NlInit ==
    /\ pc = "nl_init"
    /\ \/ \E e \in {ENOMEM, ENOLINK, ENOENT} : Fail("done", -EIO, -e, << >>, {})
       \/ /\ r' = 0
          /\ pc' = "open"
          /\ calls' = << >>
          /\ UNCHANGED <<config, locals, ret, sent, acked, failed, verified, tried,
                         decoded, oobFile, oobUsable>>

\* lines 228-248: open, fstat, mmap
OpenDb ==
    /\ pc = "open"
    /\ \/ Fail("done", -ENOENT, -ENOENT, << >>, {})
       \/ Fail("done", -EIO, -EIO, << >>, {})
       \/ \E f \in Files :
            \/ /\ dblen' = f.len
               /\ FailWith("done", -EIO, -EIO, << >>, {})
               /\ UNCHANGED <<alpha2, db, signer, siglen, hash, i, ok, num_countries,
                              countries, found_country, country, rcoll, num_rules,
                              j, msg, decoded>>
            \/ /\ f.len > 0
               /\ dblen' = f.len
               /\ db' = MkDb(f)
               /\ signer' = f.signer
               /\ pc' = "header"
               /\ calls' = << >>
               /\ UNCHANGED <<config, alpha2, siglen, hash, i, ok, num_countries,
                              countries, found_country, country, rcoll, num_rules,
                              j, msg, outcome, failed, verified, tried, decoded,
                              oobFile, oobUsable>>

(* ----------------------------------------------------------------------- *)
(* main: the header and the signature                                      *)
(* ----------------------------------------------------------------------- *)

\* lines 250-272
CheckHeader ==
    /\ pc = "header"
    /\ \E g \in get_file_ptr(dblen, SizeofHeader, <<0, 0, 0, 0>>) :
        LET header == g.p
            rdMagic == {<<header, OffMagic, 4>>}
            rdVersion == rdMagic \cup {<<header, OffVersion, 4>>}
            rdAll == rdVersion \cup {<<header, OffSignatureLength, 4>>}
            sl == ntohl(Be32(header, OffSignatureLength))
            newlen == WrapSub(dblen, sl)
        IN  IF ~g.ok THEN Fail("exit", 3, r, <<g>>, {})
            ELSE IF ntohl(Be32(header, OffMagic)) # REGDB_MAGIC
            THEN \/ Fail("done", -EINVAL, -EINVAL, <<g>>, rdMagic)
                 \/ Crash(<<g>>, rdMagic)
            ELSE IF ntohl(Be32(header, OffVersion)) # REGDB_VERSION
            THEN \/ Fail("done", -EINVAL, -EINVAL, <<g>>, rdVersion)
                 \/ Crash(<<g>>, rdVersion)
            ELSE \/ Crash(<<g>>, rdAll)
                 \* dblen -= siglen overflowing int is undefined: it may trap
                 \/ /\ SubOverflows(dblen, sl)
                    /\ Fail("crash", ret, r, <<g>>, rdAll)
                 \* dblen <= sizeof(*header) compares as size_t
                 \/ /\ ~UGreater(newlen, SizeofHeader)
                    /\ siglen' = sl
                    /\ dblen' = newlen
                    /\ FailWith("done", -EINVAL, -EINVAL, <<g>>, rdAll)
                    /\ UNCHANGED <<alpha2, db, signer, hash, i, ok, num_countries,
                                   countries, found_country, country, rcoll,
                                   num_rules, j, msg, decoded>>
                 \/ /\ UGreater(newlen, SizeofHeader)
                    /\ siglen' = sl
                    /\ dblen' = newlen
                    /\ pc' = IF build = "none" THEN "countries" ELSE "digest"
                    /\ calls' = <<g>>
                    /\ Touch(rdAll, dblen)
                    /\ UNCHANGED <<config, alpha2, db, signer, hash, i, ok,
                                   num_countries, countries, found_country, country,
                                   rcoll, num_rules, j, msg, outcome, failed,
                                   verified, tried, decoded>>

\* RSA_size(&keys[k])
RSA_size(k) == KeyBytes

\* The signature of the file verifies under keys[k]: the file carries key k's
\* signature in its last KeyBytes bytes, the digest was taken over exactly the
\* bytes before them, and those KeyBytes bytes are what is checked.
Verifies(k) ==
    /\ signer = k + 1
    /\ Len(db) = FullLen
    /\ hash = SignedLen
    /\ dblen = SignedLen
    /\ siglen = RSA_size(k)

\* lines 276-287 (RSA_new, SHA1) and 318-333 (hash, the two S-expressions)
Digest ==
    /\ pc = "digest"
    /\ LET rdHash == {<<0, 0, dblen>>}
           rdSig == {<<dblen, 0, siglen>>}
       IN  \/ /\ build = "openssl"
              /\ \/ Fail("done", -EINVAL, -EINVAL, << >>, {})
                 \/ Fail("done", -EINVAL, -EINVAL, << >>, rdHash)
                 \/ Crash(<< >>, rdHash)
                 \/ /\ hash' = dblen
                    /\ i' = 0
                    /\ pc' = "keys"
                    /\ calls' = << >>
                    /\ oobFile' = (oobFile \/ OutsideFile(rdHash))
                    /\ UNCHANGED <<config, alpha2, db, signer, dblen, siglen, ok,
                                   num_countries, countries, found_country, country,
                                   rcoll, num_rules, j, msg, outcome, failed,
                                   verified, tried, decoded, oobUsable>>
           \/ /\ build = "gcrypt"
              /\ \/ Fail("done", 2, r, << >>, rdHash)
                 \/ Fail("done", 2, r, << >>, rdHash \cup rdSig)
                 \/ Crash(<< >>, rdHash \cup rdSig)
                 \/ /\ hash' = dblen
                    /\ i' = 0
                    /\ pc' = "keys"
                    /\ calls' = << >>
                    /\ oobFile' = (oobFile \/ OutsideFile(rdHash \cup rdSig))
                    /\ UNCHANGED <<config, alpha2, db, signer, dblen, siglen, ok,
                                   num_countries, countries, found_country, country,
                                   rcoll, num_rules, j, msg, outcome, failed,
                                   verified, tried, decoded, oobUsable>>

\* lines 289-300: one iteration of the key loop, OpenSSL
TryKeyOpenssl ==
    /\ pc = "keys"
    /\ build = "openssl"
    /\ i < NumKeys
    /\ LET key == i
           rdSig == {<<dblen, 0, siglen>>}
       IN  IF RSA_size(key) # siglen
           THEN /\ i' = i + 1
                /\ tried' = Append(tried, key)
                /\ calls' = << >>
                /\ UNCHANGED <<config, pc, alpha2, db, signer, dblen, siglen, hash,
                               ok, num_countries, countries, found_country, country,
                               rcoll, num_rules, j, msg, outcome, failed, verified,
                               decoded, oobFile, oobUsable>>
           ELSE \/ Crash(<< >>, rdSig)
                \/ /\ ok' = IF Verifies(key) THEN 1 ELSE 0
                   /\ i' = IF Verifies(key) THEN i ELSE i + 1
                   /\ pc' = IF Verifies(key) THEN "after_keys" ELSE "keys"
                   /\ tried' = Append(tried, key)
                   /\ calls' = << >>
                   /\ oobFile' = (oobFile \/ OutsideFile(rdSig))
                   /\ UNCHANGED <<config, alpha2, db, signer, dblen, siglen, hash,
                                  num_countries, countries, found_country, country,
                                  rcoll, num_rules, j, msg, outcome, failed,
                                  verified, decoded, oobUsable>>

\* lines 335-355: one iteration of the key loop, libgcrypt
TryKeyGcrypt ==
    /\ pc = "keys"
    /\ build = "gcrypt"
    /\ i < NumKeys
    /\ LET key == 0      \* keys[0].e, keys[0].n
       IN  \/ Fail("done", 2, r, << >>, {})
           \/ /\ ok' = IF Verifies(key) THEN 1 ELSE ok
              /\ i' = IF Verifies(key) THEN i ELSE i + 1
              /\ pc' = IF Verifies(key) THEN "after_keys" ELSE "keys"
              /\ tried' = Append(tried, key)
              /\ calls' = << >>
              /\ UNCHANGED <<config, alpha2, db, signer, dblen, siglen, hash,
                             num_countries, countries, found_country, country,
                             rcoll, num_rules, j, msg, outcome, failed, verified,
                             decoded, oobFile, oobUsable>>

\* the key loop runs out of keys
KeysDone ==
    /\ pc = "keys"
    /\ i >= NumKeys
    /\ pc' = "after_keys"
    /\ calls' = << >>
    /\ UNCHANGED <<config, locals, outcome, failed, verified, tried, decoded,
                   oobFile, oobUsable>>

\* lines 302-312 and 357-360
CheckOk ==
    /\ pc = "after_keys"
    /\ IF ok = 0
       THEN IF build = "openssl"
            THEN Fail("done", -EINVAL, -EINVAL, << >>, {})
            ELSE Fail("done", 2, r, << >>, {})
       ELSE /\ verified' = TRUE
            /\ pc' = "countries"
            /\ calls' = << >>
            /\ UNCHANGED <<config, locals, outcome, failed, tried, decoded,
                           oobFile, oobUsable>>

(* ----------------------------------------------------------------------- *)
(* main: the country table                                                 *)
(* ----------------------------------------------------------------------- *)

\* lines 364-367; header is db + 0
ResolveCountries ==
    /\ pc = "countries"
    /\ LET n == ntohl(Be32(0, OffCountryNum))
           rd == {<<0, OffCountryNum, 4>>, <<0, OffCountryPtr, 4>>}
       IN  \E g \in get_file_ptr(dblen, WrapMul(SizeofCountry, n),
                                 Be32(0, OffCountryPtr)) :
            /\ decoded' = decoded \cup {"header"}
            /\ \/ CrashWith(<< >>, rd)
               \/ /\ ~g.ok
                  /\ num_countries' = n
                  /\ FailWith("exit", 3, r, <<g>>, rd)
                  /\ UNCHANGED <<alpha2, db, signer, dblen, siglen, hash, i, ok,
                                 countries, found_country, country, rcoll,
                                 num_rules, j, msg>>
               \/ /\ g.ok
                  /\ num_countries' = n
                  /\ countries' = g.p
                  /\ pc' = "scan"
                  /\ calls' = <<g>>
                  /\ Touch(rd, dblen)
                  /\ UNCHANGED <<config, alpha2, db, signer, dblen, siglen, hash,
                                 i, ok, found_country, country, rcoll, num_rules,
                                 j, msg, outcome, failed, verified, tried>>

\* memcmp of two 2-byte strings: 0 when equal, else the sign of the first
\* differing byte pair
memcmp2(a, b) ==
    IF a[1] # b[1] THEN (IF a[1] < b[1] THEN -1 ELSE 1)
    ELSE IF a[2] # b[2] THEN (IF a[2] < b[2] THEN -1 ELSE 1)
    ELSE 0

\* country->alpha2 of countries[k]
CountryCode(k) ==
    <<Byte(countries, SizeofCountry * k), Byte(countries, SizeofCountry * k + 1)>>

\* Lines 369-375: the index the loop breaks at, from index k on; -1 if it runs
\* to the end.  A record that starts past the mapping reads as fill bytes, and
\* so does every record after it: the search stops there.
RECURSIVE FirstMatch(_)
FirstMatch(k) ==
    IF k >= num_countries THEN -1
    ELSE IF memcmp2(CountryCode(k), alpha2) = 0 THEN k
    ELSE IF countries < 0 \/ SizeofCountry * k >= Len(db) - countries THEN -1
    ELSE FirstMatch(k + 1)

Min(a, b) == IF a < b THEN a ELSE b

\* lines 369-380
ScanCountries ==
    /\ pc = "scan"
    /\ LET m == FirstMatch(0)
           last == IF m >= 0 THEN m ELSE Min(num_countries - 1, Len(db))
           rd == IF num_countries > 0
                 THEN {<<countries, SizeofCountry * last, 2>>}
                 ELSE {}
       IN  /\ decoded' = IF rd = {} THEN decoded ELSE decoded \cup {"country"}
           /\ \/ CrashWith(<< >>, rd)
              \/ /\ m < 0
                 /\ i' = IF num_countries > 0 THEN num_countries ELSE 0
                 /\ FailWith("done", -1, r, << >>, rd)
                 /\ UNCHANGED <<alpha2, db, signer, dblen, siglen, hash, ok,
                                num_countries, countries, found_country, country,
                                rcoll, num_rules, j, msg>>
              \/ /\ m >= 0
                 /\ i' = m
                 /\ found_country' = 1
                 /\ country' = countries + SizeofCountry * m
                 /\ pc' = "alloc"
                 /\ calls' = << >>
                 /\ Touch(rd, dblen)
                 /\ UNCHANGED <<config, alpha2, db, signer, dblen, siglen, hash, ok,
                                num_countries, countries, rcoll, num_rules, j, msg,
                                outcome, failed, verified, tried>>

(* ----------------------------------------------------------------------- *)
(* main: the message                                                       *)
(* ----------------------------------------------------------------------- *)

\* The attribute stream of a message: what nla_put and the nest calls append.
\* A rule container's attribute type is the number passed to nla_nest_start.
PutU32(attr, v) == [op |-> "put", attr |-> attr, val |-> <<v>>]
PutString(attr, str) == [op |-> "put", attr |-> attr, val |-> str]
NestStart(attr, type) == [op |-> "nest_start", attr |-> attr, val |-> <<type>>]
NestEnd(attr) == [op |-> "nest_end", attr |-> attr, val |-> << >>]
GenlHeader == [op |-> "genlmsg_put", attr |-> "NL80211_CMD_SET_REG", val |-> << >>]

\* lines 382-389
AllocMsg ==
    /\ pc = "alloc"
    /\ \/ Fail("done", -1, r, << >>, {})
       \/ /\ msg' = <<GenlHeader>>
          /\ pc' = "collection"
          /\ calls' = << >>
          /\ UNCHANGED <<config, alpha2, db, signer, dblen, siglen, hash, i, ok,
                         num_countries, countries, found_country, country, rcoll,
                         num_rules, j, outcome, failed, verified, tried, decoded,
                         oobFile, oobUsable>>

\* lines 392-397
ResolveCollection ==
    /\ pc = "collection"
    /\ LET ptr == Be32(country, OffCollectionPtr)
           rd1 == {<<country, OffCollectionPtr, 4>>}
       IN  \E g1 \in get_file_ptr(dblen, SizeofCollection, ptr) :
            LET n == ntohl(Be32(g1.p, 0))
                rd2 == rd1 \cup {<<g1.p, 0, 4>>}
            IN  /\ decoded' = decoded \cup {"country"}
                /\ IF ~g1.ok
                   THEN \/ CrashWith(<< >>, rd1)
                        \/ /\ FailWith("exit", 3, r, <<g1>>, rd1)
                           /\ UNCHANGED locals
                   ELSE \E g2 \in get_file_ptr(dblen,
                            WrapAdd(SizeofCollection, WrapMul(SizeofBe32, n)), ptr) :
                        \/ CrashWith(<<g1>>, rd2)
                        \/ /\ ~g2.ok
                           /\ rcoll' = g1.p
                           /\ num_rules' = n
                           /\ FailWith("exit", 3, r, <<g1, g2>>, rd2)
                           /\ UNCHANGED <<alpha2, db, signer, dblen, siglen, hash,
                                          i, ok, num_countries, countries,
                                          found_country, country, j, msg>>
                        \/ /\ g2.ok
                           /\ rcoll' = g2.p
                           /\ num_rules' = n
                           /\ pc' = "put_alpha2"
                           /\ calls' = <<g1, g2>>
                           /\ Touch(rd2, dblen)
                           /\ UNCHANGED <<config, alpha2, db, signer, dblen, siglen,
                                          hash, i, ok, num_countries, countries,
                                          found_country, country, j, msg, outcome,
                                          failed, verified, tried>>

\* The bytes strlen walks over from db + p + off: up to the first NUL, or to
\* the end of the mapping when the bytes after it are not NUL.
RECURSIVE CString(_, _)
CString(p, off) ==
    IF ~(p >= 0 /\ p < Len(db) - off) THEN << >>
    ELSE IF db[p + off + 1] = 0 THEN << >>
    ELSE <<db[p + off + 1]>> \o CString(p, off + 1)

\* line 399: NLA_PUT_STRING(msg, NL80211_ATTR_REG_ALPHA2, country->alpha2)
PutAlpha2 ==
    /\ pc = "put_alpha2"
    /\ LET str == CString(country, 0)
           rd == {<<country, 0, Len(str) + 1>>}
       IN  \/ Crash(<< >>, rd)
           \/ Fail("done", r, r, << >>, rd)        \* goto nla_put_failure
           \/ /\ msg' = Append(msg, PutString("NL80211_ATTR_REG_ALPHA2", str))
              /\ pc' = "nest_rules"
              /\ calls' = << >>
              /\ oobFile' = (oobFile \/ OutsideFile(rd))
              /\ UNCHANGED <<config, alpha2, db, signer, dblen, siglen, hash, i, ok,
                             num_countries, countries, found_country, country,
                             rcoll, num_rules, j, outcome, failed, verified, tried,
                             decoded, oobUsable>>

\* lines 401-405, and j = 0 of line 407
NestStartRules ==
    /\ pc = "nest_rules"
    /\ \/ Fail("done", -1, -1, << >>, {})
       \/ /\ msg' = Append(msg, NestStart("NL80211_ATTR_REG_RULES", 0))
          /\ j' = 0
          /\ pc' = "rule_loop"
          /\ calls' = << >>
          /\ UNCHANGED <<config, alpha2, db, signer, dblen, siglen, hash, i, ok,
                         num_countries, countries, found_country, country, rcoll,
                         num_rules, outcome, failed, verified, tried, decoded,
                         oobFile, oobUsable>>

\* lines 407-411: the message has room for MaxMsgRules rule containers
NestStartRule ==
    /\ pc = "rule_loop"
    /\ j < num_rules
    /\ \/ Fail("done", r, r, << >>, {})            \* goto nla_put_failure
       \/ /\ j < MaxMsgRules
          /\ msg' = Append(msg, NestStart("rule", i))
          /\ pc' = "put_rule"
          /\ calls' = << >>
          /\ UNCHANGED <<config, alpha2, db, signer, dblen, siglen, hash, i, ok,
                         num_countries, countries, found_country, country, rcoll,
                         num_rules, j, outcome, failed, verified, tried, decoded,
                         oobFile, oobUsable>>

\* RuleAttrs with the end frequency taken from start_freq
RuleAttrsStartTwice(rule, freq, power) ==
    << PutU32("NL80211_ATTR_REG_RULE_FLAGS", ntohl(Be32(rule, OffFlags))),
       PutU32("NL80211_ATTR_FREQ_RANGE_START", ntohl(Be32(freq, OffStartFreq))),
       PutU32("NL80211_ATTR_FREQ_RANGE_END", ntohl(Be32(freq, OffStartFreq))),
       PutU32("NL80211_ATTR_FREQ_RANGE_MAX_BW", ntohl(Be32(freq, OffMaxBandwidth))),
       PutU32("NL80211_ATTR_POWER_RULE_MAX_ANT_GAIN",
              ntohl(Be32(power, OffMaxAntennaGain))),
       PutU32("NL80211_ATTR_POWER_RULE_MAX_EIRP", ntohl(Be32(power, OffMaxEirp))) >>

\* lines 155-160: the six attributes of one rule, in the order they are put
RuleAttrs(rule, freq, power) ==
    << PutU32("NL80211_ATTR_REG_RULE_FLAGS", ntohl(Be32(rule, OffFlags))),
       PutU32("NL80211_ATTR_FREQ_RANGE_START", ntohl(Be32(freq, OffStartFreq))),
       PutU32("NL80211_ATTR_FREQ_RANGE_END", ntohl(Be32(freq, OffEndFreq))),
       PutU32("NL80211_ATTR_FREQ_RANGE_MAX_BW", ntohl(Be32(freq, OffMaxBandwidth))),
       PutU32("NL80211_ATTR_POWER_RULE_MAX_ANT_GAIN",
              ntohl(Be32(power, OffMaxAntennaGain))),
       PutU32("NL80211_ATTR_POWER_RULE_MAX_EIRP", ntohl(Be32(power, OffMaxEirp))) >>

\* rcoll->reg_rule_ptrs[k], as it lies in the file
RulePtr(k) == Be32(rcoll, OffRulePtrs + SizeofBe32 * k)

\* lines 413-417, with put_reg_rule (lines 145-166)
PutRule ==
    /\ pc = "put_rule"
    /\ LET rd0 == {<<rcoll, OffRulePtrs + SizeofBe32 * j, 4>>}
       IN  \E g1 \in get_file_ptr(dblen, SizeofRule, RulePtr(j)) :
            LET rule == g1.p
                rd1 == rd0 \cup {<<rule, OffFreqRangePtr, 4>>}
            IN
            /\ decoded' = decoded \cup {"collection"}
            /\ IF ~g1.ok
               THEN \/ CrashWith(<< >>, rd0)
                    \/ FailWith("exit", 3, r, <<g1>>, rd0) /\ UNCHANGED locals
               ELSE
               \E g2 \in get_file_ptr(dblen, SizeofFreqRange,
                                      Be32(rule, OffFreqRangePtr)) :
                LET freq == g2.p
                    rd2 == rd1 \cup {<<rule, OffPowerRulePtr, 4>>}
                IN
                IF ~g2.ok
                THEN \/ CrashWith(<<g1>>, rd1)
                     \/ FailWith("exit", 3, r, <<g1, g2>>, rd1) /\ UNCHANGED locals
                ELSE
                \E g3 \in get_file_ptr(dblen, SizeofPowerRule,
                                       Be32(rule, OffPowerRulePtr)) :
                 LET power == g3.p
                     rdAll == rd2 \cup {<<rule, OffFlags, 4>>,
                                        <<freq, 0, SizeofFreqRange>>,
                                        <<power, 0, SizeofPowerRule>>}
                     attrs == RuleAttrs(rule, freq, power)
                 IN
                 IF ~g3.ok
                 THEN \/ CrashWith(<<g1, g2>>, rd2)
                      \/ FailWith("exit", 3, r, <<g1, g2, g3>>, rd2)
                            /\ UNCHANGED locals
                 ELSE
                 \/ CrashWith(<<g1, g2, g3>>, rdAll)
                 \* the k + 1st NLA_PUT_U32 fails: put_reg_rule returns -1
                 \/ \E k \in 0..(Len(attrs) - 1) :
                        /\ msg' = msg \o SubSeq(attrs, 1, k)
                        /\ FailWith("done", -1, -1, <<g1, g2, g3>>, rdAll)
                        /\ UNCHANGED <<alpha2, db, signer, dblen, siglen, hash, i,
                                       ok, num_countries, countries, found_country,
                                       country, rcoll, num_rules, j>>
                 \/ /\ msg' = Append(msg \o attrs, NestEnd("rule"))
                    /\ r' = 0
                    /\ j' = j + 1
                    /\ pc' = "rule_loop"
                    /\ calls' = <<g1, g2, g3>>
                    /\ Touch(rdAll, dblen)
                    /\ UNCHANGED <<config, alpha2, db, signer, dblen, siglen, hash,
                                   i, ok, num_countries, countries, found_country,
                                   country, rcoll, num_rules, ret, sent, acked,
                                   failed, verified, tried>>

\* lines 420-424
EndRules ==
    /\ pc = "rule_loop"
    /\ ~(j < num_rules)
    /\ msg' = Append(msg, NestEnd("NL80211_ATTR_REG_RULES"))
    /\ \/ /\ FailWith("done", r, r, << >>, {})       \* goto cb_out
          /\ UNCHANGED <<alpha2, db, signer, dblen, siglen, hash, i, ok,
                         num_countries, countries, found_country, country, rcoll,
                         num_rules, j, decoded>>
       \/ /\ pc' = "send"
          /\ calls' = << >>
          /\ UNCHANGED <<config, alpha2, db, signer, dblen, siglen, hash, i, ok,
                         num_countries, countries, found_country, country, rcoll,
                         num_rules, j, outcome, failed, verified, tried, decoded,
                         oobFile, oobUsable>>

\* lines 426-431: nl_send_auto_complete returns the bytes sent, or -errno
Send ==
    /\ pc = "send"
    /\ sent' = Append(sent, msg)
    /\ \/ /\ pc' = "done"
          /\ r' = -EIO
          /\ ret' = -EIO
          /\ failed' = TRUE
          /\ UNCHANGED acked
       \/ /\ pc' = "wait"
          /\ r' = Len(msg)
          /\ UNCHANGED <<ret, acked, failed>>
    /\ calls' = << >>
    /\ UNCHANGED <<config, locals, verified, tried, decoded, oobFile, oobUsable>>

\* lines 433-451: finished is 0, so nl_wait_for_ack is called; the kernel's
\* answer is an acknowledgement, an error message (error_handler: exit), or
\* none
WaitAck ==
    /\ pc = "wait"
    /\ \/ \E e \in {EINVAL, ENOMEM} : Fail("done", -e, -e, << >>, {})
       \/ \E e \in {EINVAL, ENOMEM} : Fail("exit", -e, r, << >>, {})
       \/ /\ r' = 0
          /\ ret' = 0
          /\ acked' = TRUE
          /\ pc' = "done"
          /\ calls' = << >>
          /\ UNCHANGED <<config, locals, sent, failed, verified, tried, decoded,
                         oobFile, oobUsable>>

Next ==
    \/ Start
    \/ NlInit
    \/ OpenDb
    \/ CheckHeader
    \/ Digest
    \/ TryKeyOpenssl
    \/ TryKeyGcrypt
    \/ KeysDone
    \/ CheckOk
    \/ ResolveCountries
    \/ ScanCountries
    \/ AllocMsg
    \/ ResolveCollection
    \/ PutAlpha2
    \/ NestStartRules
    \/ NestStartRule
    \/ PutRule
    \/ EndRules
    \/ Send
    \/ WaitAck

\* the program built with USE_OPENSSL or with USE_GCRYPT
Spec == Init /\ [][Next]_vars

\* the program in any of the three builds the source allows
SpecAnyBuild == InitAnyBuild /\ [][Next]_vars

(* ----------------------------------------------------------------------- *)
(* Properties                                                              *)
(* ----------------------------------------------------------------------- *)

\* the record of c.structlen bytes at offset c.p lies inside the first
\* c.dblen bytes: o + s <= L, with o an unsigned 32-bit offset
Fits(c) ==
    /\ c.p >= 0 /\ c.structlen >= 0 /\ c.dblen >= 0
    /\ c.structlen <= c.dblen
    /\ c.p <= c.dblen - c.structlen

\* C1: get_file_ptr returns a pointer exactly when offset + record size is at
\* most the usable length, and fails otherwise, also when the record size
\* exceeds the usable length.
C1_ResolverBounds == \A k \in 1..Len(calls) : calls[k].ok <=> Fits(calls[k])

\* C2: a run gets past the signature-length check only if the file length
\* minus the declared signature length (an unsigned 32-bit value) exceeds the
\* header size, and no byte outside the file has been read by then.
C2_SignatureLength ==
    pc \in {"digest", "countries"} =>
        /\ siglen >= 0
        /\ Len(db) - siglen > SizeofHeader
        /\ ~oobFile

\* the signature has verified over a usable length that the signature-length
\* check is right to let through
UsableLenOk == verified /\ dblen > SizeofHeader /\ dblen <= Len(db)

\* C3: the country scan of a verified database is reached only if
\* reg_country_ptr plus reg_country_num country records lies inside the usable
\* length.
C3_CountryTableBounds ==
    (pc = "scan" /\ UsableLenOk) =>
        /\ countries >= 0 /\ num_countries >= 0
        /\ num_countries <= dblen \div SizeofCountry
        /\ countries <= dblen - SizeofCountry * num_countries

\* C4: no field past the header's magic, version and signature_length is
\* read, and no message is built, before the signature has verified.
C4_VerifyBeforeDecode ==
    (siglen = KeyBytes /\ (decoded # {} \/ msg # << >>)) => verified

\* the rule containers of the attribute stream m, each the sequence of the
\* attributes put between its nest start and its nest end
RECURSIVE RuleNests(_, _, _)
RuleNests(m, k, open) ==
    IF k > Len(m) THEN << >>
    ELSE IF m[k].op = "nest_start" /\ m[k].attr = "rule"
         THEN RuleNests(m, k + 1, << <<m[k]>> >>)
    ELSE IF m[k].op = "nest_end" /\ m[k].attr = "rule"
         THEN <<Tail(open[1])>> \o RuleNests(m, k + 1, << >>)
    ELSE IF open # << >>
         THEN RuleNests(m, k + 1, << Append(open[1], m[k]) >>)
    ELSE RuleNests(m, k + 1, open)

\* the value of the four file bytes at offset off, most significant first
FileU32(off) == ntohl(SubSeq(db, off + 1, off + 4))

\* the file is signed by a trusted key and says so in its header
CorrectlySigned ==
    /\ signer \in 1..NumKeys
    /\ Len(db) = FullLen
    /\ FileU32(OffSignatureLength) = KeyBytes

\* the records the file declares, read straight from its bytes
FileCountryPtr == FileU32(OffCountryPtr)
FileCountryNum == FileU32(OffCountryNum)
FileCode(k) == SubSeq(db, FileCountryPtr + SizeofCountry * k + 1,
                      FileCountryPtr + SizeofCountry * k + 2)
FileMatch == CHOOSE k \in 0..(FileCountryNum - 1) :
                /\ FileCode(k) = alpha2
                /\ \A l \in 0..(k - 1) : FileCode(l) # alpha2
FileColl == FileU32(FileCountryPtr + SizeofCountry * FileMatch + OffCollectionPtr)
FileRuleNum == FileU32(FileColl)
FileRule(n) == FileU32(FileColl + OffRulePtrs + SizeofBe32 * n)
FileFreq(n) == FileU32(FileRule(n) + OffFreqRangePtr)
FilePower(n) == FileU32(FileRule(n) + OffPowerRulePtr)

Inside(off, size) ==
    off >= 0 /\ size >= 0 /\ size <= SignedLen /\ off <= SignedLen - size

\* every record on the way to the requested country's rules lies inside the
\* signed region
WellFormed ==
    /\ Len(db) = FullLen
    /\ FileU32(OffMagic) = REGDB_MAGIC
    /\ FileU32(OffVersion) = REGDB_VERSION
    /\ FileCountryNum >= 0 /\ FileCountryNum <= SignedLen
    /\ Inside(FileCountryPtr, SizeofCountry * FileCountryNum)
    /\ \E k \in 0..(FileCountryNum - 1) : FileCode(k) = alpha2
    /\ Inside(FileColl, SizeofCollection)
    /\ FileRuleNum >= 0 /\ FileRuleNum <= SignedLen
    /\ Inside(FileColl, SizeofCollection + SizeofBe32 * FileRuleNum)
    /\ \A n \in 0..(FileRuleNum - 1) :
        /\ Inside(FileRule(n), SizeofRule)
        /\ Inside(FileFreq(n), SizeofFreqRange)
        /\ Inside(FilePower(n), SizeofPowerRule)

\* the six values of the file's n-th rule of the requested country
FileRuleValues(n) ==
    << FileU32(FileRule(n) + OffFlags),
       FileU32(FileFreq(n) + OffStartFreq),
       FileU32(FileFreq(n) + OffEndFreq),
       FileU32(FileFreq(n) + OffMaxBandwidth),
       FileU32(FilePower(n) + OffMaxAntennaGain),
       FileU32(FilePower(n) + OffMaxEirp) >>

RuleAttrNames ==
    << "NL80211_ATTR_REG_RULE_FLAGS", "NL80211_ATTR_FREQ_RANGE_START",
       "NL80211_ATTR_FREQ_RANGE_END", "NL80211_ATTR_FREQ_RANGE_MAX_BW",
       "NL80211_ATTR_POWER_RULE_MAX_ANT_GAIN", "NL80211_ATTR_POWER_RULE_MAX_EIRP" >>

ExpectedNests ==
    [n \in 1..FileRuleNum |->
        [a \in 1..6 |-> PutU32(RuleAttrNames[a], FileRuleValues(n - 1)[a])]]

\* C5: for a well-formed, correctly signed file, the message handed to the
\* transport holds one rule container per rule of the requested country, in
\* file order, each carrying that rule's six values after ntohl.
C5_RuleRoundTrip ==
    (sent # << >> /\ CorrectlySigned /\ WellFormed) =>
        RuleNests(sent[1], 1, << >>) = ExpectedNests

C5_Witness ==
    /\ sent # << >> /\ CorrectlySigned /\ WellFormed
    /\ verified
    /\ FileRuleNum = MaxRules
    /\ acked

\* the records of the table as the header's unsigned count declares it, as
\* far as they can differ from fill bytes
DeclaredCountries ==
    0..((IF num_countries < 0 \/ num_countries > Len(db)
         THEN Len(db) + 1 ELSE num_countries) - 1)

\* C6: the country used is the lowest-index record of the table whose code is
\* the requested one; if the table has none, the run ends with the
\* country-not-found error and nothing is sent.
C6_FirstMatch ==
    /\ (pc = "alloc" /\ UsableLenOk) =>
        /\ CountryCode(i) = alpha2
        /\ \A k \in 0..(i - 1) : CountryCode(k) # alpha2
        /\ country = countries + SizeofCountry * i
    /\ (pc = "done" /\ ret = -1 /\ found_country = 0 /\ UsableLenOk) =>
        /\ \A k \in DeclaredCountries : CountryCode(k) # alpha2
        /\ sent = << >>

\* C7: the message is handed to the transport at most once, and only with
\* every one of the collection's reg_rule_num rules encoded and closed.
C7_AllOrNothing ==
    /\ Len(sent) <= 1
    /\ (sent # << >> /\ UsableLenOk) =>
        /\ Len(RuleNests(sent[1], 1, << >>)) = num_rules
        /\ \A n \in 1..Len(RuleNests(sent[1], 1, << >>)) :
            Len(RuleNests(sent[1], 1, << >>)[n]) = 6

\* C8: a run in which a step failed ends with a non-zero result; the result
\* is 0 only when the message was sent and acknowledged.
C8_FailureIsReported ==
    pc \in {"done", "exit"} =>
        /\ failed => ret # 0
        /\ ret = 0 => acked

\* C9: the rule loop over a verified database is reached only if the collection header plus
\* reg_rule_num pointers lies inside the usable length, and each rule pointer
\* read lies inside it.
C9_CollectionBounds ==
    /\ (pc \in {"put_alpha2", "nest_rules", "rule_loop", "put_rule"} /\ UsableLenOk) =>
        /\ rcoll >= 0 /\ num_rules >= 0
        /\ num_rules <= (dblen - SizeofCollection) \div SizeofBe32
        /\ rcoll <= dblen - SizeofCollection - SizeofBe32 * num_rules
    /\ (pc = "put_rule" /\ UsableLenOk) =>
        InUsable(rcoll, OffRulePtrs + SizeofBe32 * j, SizeofBe32, dblen)

\* C10: the n-th iteration of the key loop checks the signature against key
\* n, and the loop ends with ok set exactly when one of the trusted keys
\* verifies the signature.
C10_KeyIteration ==
    /\ \A n \in 1..Len(tried) : tried[n] = n - 1
    /\ pc = "after_keys" => ((ok = 1) <=> \E k \in 0..(NumKeys - 1) : Verifies(k))

====
